---- MODULE Spec2Model ----
(***************************************************************************)
(* BESS sizing calculator (src/app.py).                                    *)
(*                                                                         *)
(* The program is arithmetic on Python floats (IEEE-754 binary64), so the  *)
(* model carries binary64 values exactly: a float is a sign, a 53-bit      *)
(* significand and a binary exponent, and *, /, - round the exact result   *)
(* to nearest, ties to even, as the hardware does.  Significands do not    *)
(* fit the model checker's integers, so they are kept as little-endian     *)
(* sequences of 15-bit limbs.  Exponent range (overflow, subnormals) is    *)
(* not modelled: every value of the program lies between 1e-7 and 1e9.     *)
(***************************************************************************)
EXTENDS Integers, Sequences, FiniteSets, TLC

(***************************************************************************)
(* Natural numbers of arbitrary size: <<l1, ..., ln>> is                   *)
(* l1 + l2*Base + ... + ln*Base^(n-1), ln # 0; zero is <<>>.               *)
(***************************************************************************)
Prec == 53

LimbBits == 15

Base == 2^LimbBits

Limb(a, i) == IF i <= Len(a) THEN a[i] ELSE 0

RECURSIVE BTrim(_)
BTrim(a) ==
  IF a = <<>> THEN <<>>
  ELSE IF a[Len(a)] = 0 THEN BTrim(SubSeq(a, 1, Len(a) - 1)) ELSE a

RECURSIVE IntToB(_)
IntToB(n) == IF n = 0 THEN <<>> ELSE <<n % Base>> \o IntToB(n \div Base)

RECURSIVE BToInt(_)
BToInt(a) == IF a = <<>> THEN 0 ELSE a[1] + Base * BToInt(Tail(a))

RECURSIVE BAddFrom(_, _, _, _)
BAddFrom(a, b, i, c) ==
  IF i > Len(a) /\ i > Len(b)
  THEN IF c = 0 THEN <<>> ELSE <<c>>
  ELSE LET s == Limb(a, i) + Limb(b, i) + c
       IN  <<s % Base>> \o BAddFrom(a, b, i + 1, s \div Base)

BAdd(a, b) == BAddFrom(a, b, 1, 0)

\* a - b for a >= b
RECURSIVE BSubFrom(_, _, _, _)
BSubFrom(a, b, i, c) ==
  IF i > Len(a) THEN <<>>
  ELSE LET s == a[i] - Limb(b, i) - c
       IN  IF s < 0 THEN <<s + Base>> \o BSubFrom(a, b, i + 1, 1)
                    ELSE <<s>> \o BSubFrom(a, b, i + 1, 0)

BSub(a, b) == BTrim(BSubFrom(a, b, 1, 0))

\* -1, 0, 1 as a < b, a = b, a > b
RECURSIVE BCmpFrom(_, _, _)
BCmpFrom(a, b, i) ==
  IF i = 0 THEN 0
  ELSE IF a[i] < b[i] THEN -1
  ELSE IF a[i] > b[i] THEN 1
  ELSE BCmpFrom(a, b, i - 1)

BCmp(a, b) ==
  IF Len(a) < Len(b) THEN -1
  ELSE IF Len(a) > Len(b) THEN 1
  ELSE BCmpFrom(a, b, Len(a))

\* a * s for 0 <= s < Base
RECURSIVE BMulSmallFrom(_, _, _, _)
BMulSmallFrom(a, s, i, c) ==
  IF i > Len(a)
  THEN IF c = 0 THEN <<>> ELSE <<c>>
  ELSE LET p == a[i] * s + c
       IN  <<p % Base>> \o BMulSmallFrom(a, s, i + 1, p \div Base)

BMulSmall(a, s) == IF s = 0 THEN <<>> ELSE BMulSmallFrom(a, s, 1, 0)

BShlLimbs(a, n) == IF a = <<>> THEN <<>> ELSE [i \in 1..n |-> 0] \o a

RECURSIVE BMulFrom(_, _, _)
BMulFrom(a, b, i) ==
  IF i > Len(b) THEN <<>>
  ELSE BAdd(BShlLimbs(BMulSmall(a, b[i]), i - 1), BMulFrom(a, b, i + 1))

BMul(a, b) == BMulFrom(a, b, 1)

\* a * 2^n
BShl(a, n) == BShlLimbs(BMulSmall(a, 2^(n % LimbBits)), n \div LimbBits)

\* floor(a / s) for 0 < s <= Base, most significant limb first
RECURSIVE BDivSmallFrom(_, _, _, _)
BDivSmallFrom(a, s, i, r) ==
  IF i = 0 THEN <<>>
  ELSE LET t == r * Base + a[i]
       IN  BDivSmallFrom(a, s, i - 1, t % s) \o <<t \div s>>

BDivSmall(a, s) == BTrim(BDivSmallFrom(a, s, Len(a), 0))

\* floor(a / 2^n)
BShr(a, n) ==
  IF n \div LimbBits >= Len(a) THEN <<>>
  ELSE BDivSmall(SubSeq(a, n \div LimbBits + 1, Len(a)), 2^(n % LimbBits))

RECURSIVE IntBitLen(_)
IntBitLen(n) == IF n = 0 THEN 0 ELSE 1 + IntBitLen(n \div 2)

BBitLen(a) ==
  IF a = <<>> THEN 0 ELSE LimbBits * (Len(a) - 1) + IntBitLen(a[Len(a)])

BOdd(a) == a # <<>> /\ a[1] % 2 = 1

\* The limbs of a quotient, by long division in base Base.  d has n limbs and
\* its top limb is at least Base / 2, so the quotient of the two top limbs of
\* the dividend by the top limb of d is the quotient limb or a little above it.
Min(x, y) == IF x < y THEN x ELSE y

\* the largest c0 <= c with d * c0 <= u
RECURSIVE BQuotFrom(_, _, _)
BQuotFrom(u, d, c) ==
  IF BCmp(BMulSmall(d, c), u) <= 0 THEN c ELSE BQuotFrom(u, d, c - 1)

\* floor(u / d) for u < d * Base
BQuot(u, d) ==
  BQuotFrom(u, d,
    Min(Base - 1,
        (Limb(u, Len(d) + 1) * Base + Limb(u, Len(d))) \div d[Len(d)]))

\* k limbs of quotient: <<floor(r * Base^k / d), (r * Base^k) mod d>>, r < d
RECURSIVE BDivLimbs(_, _, _)
BDivCons(limb, rest) == <<rest[1] \o <<limb>>, rest[2]>>

BDivTake(u, d, k, c) ==
  BDivCons(c, BDivLimbs(BSub(u, BMulSmall(d, c)), d, k - 1))

BDivNext(u, d, k) == BDivTake(u, d, k, BQuot(u, d))

BDivLimbs(r, d, k) ==
  IF k = 0 THEN <<<<>>, r>> ELSE BDivNext(BShlLimbs(r, 1), d, k)

(***************************************************************************)
(* binary64.  [neg, m, e] is (-1)^neg * m * 2^e with 2^52 <= m < 2^53,     *)
(* or m = <<>>, e = 0 for zero.                                            *)
(***************************************************************************)
FZero == [neg |-> FALSE, m |-> <<>>, e |-> 0]

\* the float nearest to n * 2^e (ties to even); sticky says that the exact
\* value is above n * 2^e by less than 2^e
\* q1 is the rounded significand, of 53 bits or exactly 2^53
FCarry(neg, q1, e) ==
  IF BBitLen(q1) > Prec THEN [neg |-> neg, m |-> BShr(q1, 1), e |-> e + 1]
  ELSE [neg |-> neg, m |-> q1, e |-> e]

\* q is the upper 53 bits; c compares the bits dropped with half a unit of q
FRoundUp(neg, q, e, c, sticky) ==
  IF c > 0 \/ (c = 0 /\ (sticky \/ BOdd(q)))
  THEN FCarry(neg, BAdd(q, <<1>>), e) ELSE [neg |-> neg, m |-> q, e |-> e]

FRoundQ(neg, n, e, sticky, s, q) ==
  FRoundUp(neg, q, e + s, BCmp(BSub(n, BShl(q, s)), BShl(<<1>>, s - 1)), sticky)

FRoundLen(neg, n, e, sticky, len) ==
  IF len <= Prec
  THEN [neg |-> neg, m |-> BShl(n, Prec - len), e |-> e - (Prec - len)]
  ELSE FRoundQ(neg, n, e, sticky, len - Prec, BShr(n, len - Prec))

FRound(neg, n, e, sticky) ==
  IF n = <<>> THEN FZero ELSE FRoundLen(neg, n, e, sticky, BBitLen(n))

\* float(n) for an integer n >= 0
FromInt(n) == FRound(FALSE, IntToB(n), 0, FALSE)

\* a * b
FMul(a, b) == FRound(a.neg # b.neg, BMul(a.m, b.m), a.e + b.e, FALSE)

\* a / b, b # 0
\* top is the integer part of am / bm (0 or 1), qr the next 60 bits of the
\* quotient and the remainder
FDivQ(neg, top, qr, e) ==
  FRound(neg, BTrim(qr[1] \o top), e - 4 * LimbBits, qr[2] # <<>>)

\* am and bm are the significands, shifted to fill their top limb
FDivM(neg, am, bm, e) ==
  FDivQ(neg,
        IF BCmp(am, bm) >= 0 THEN <<1>> ELSE <<>>,
        BDivLimbs(IF BCmp(am, bm) >= 0 THEN BSub(am, bm) ELSE am, bm, 4),
        e)

FDiv(a, b) ==
  IF a.m = <<>> THEN FZero
  ELSE FDivM(a.neg # b.neg, BShl(a.m, 4 * LimbBits - Prec),
             BShl(b.m, 4 * LimbBits - Prec), a.e - b.e)

\* -1, 0, 1 as |a| < |b|, |a| = |b|, |a| > |b|
FCmpAbs(a, b) ==
  IF a.m = <<>> THEN (IF b.m = <<>> THEN 0 ELSE -1)
  ELSE IF b.m = <<>> THEN 1
  ELSE IF a.e < b.e THEN -1
  ELSE IF a.e > b.e THEN 1
  ELSE BCmp(a.m, b.m)

\* -1, 0, 1 as a < b, a = b, a > b
FCmp(a, b) ==
  IF a.neg /\ ~b.neg THEN -1
  ELSE IF ~a.neg /\ b.neg THEN 1
  ELSE IF a.neg THEN -FCmpAbs(a, b) ELSE FCmpAbs(a, b)

FLe(a, b) == FCmp(a, b) <= 0

FLt(a, b) == FCmp(a, b) < 0

FEq(a, b) == FCmp(a, b) = 0

\* a - b
\* am * 2^e and bm * 2^e are |a| and |b|; c compares am with bm
FSubCmp(aneg, bneg, am, bm, e, c) ==
  FRound(IF aneg # bneg \/ c > 0 THEN aneg ELSE ~aneg,
         IF aneg # bneg THEN BAdd(am, bm)
         ELSE IF c > 0 THEN BSub(am, bm) ELSE BSub(bm, am),
         e, FALSE)

FSubAligned(aneg, bneg, am, bm, e) ==
  FSubCmp(aneg, bneg, am, bm, e, BCmp(am, bm))

FSubAt(a, b, emin) ==
  FSubAligned(a.neg, b.neg, BShl(a.m, a.e - emin), BShl(b.m, b.e - emin), emin)

FSub(a, b) ==
  IF b.m = <<>> THEN a
  ELSE IF a.m = <<>> THEN [b EXCEPT !.neg = ~b.neg]
  ELSE FSubAt(a, b, IF a.e < b.e THEN a.e ELSE b.e)

\* math.ceil(a), an integer
\* math.floor(a) for a >= 0, where math.ceil(a) is meant
FFloor(a) ==
  IF a.m = <<>> THEN 0
  ELSE IF a.e >= 0 THEN BToInt(BShl(a.m, a.e))
  ELSE BToInt(BShr(a.m, -a.e))

\* fl is floor(|a|) for a with a fraction part in its significand
FCeilFl(a, fl) ==
  IF a.neg THEN -BToInt(fl)
  ELSE IF BShl(fl, -a.e) = a.m THEN BToInt(fl) ELSE BToInt(fl) + 1

FCeil(a) ==
  IF a.m = <<>> THEN 0
  ELSE IF a.e >= 0 THEN (IF a.neg THEN -1 ELSE 1) * BToInt(BShl(a.m, a.e))
  ELSE FCeilFl(a, BShr(a.m, -a.e))

\* the float a decimal literal n / 10^k denotes
FromDec(n, k) == FDiv(FromInt(n), FromInt(10^k))

\* f"{a:.2f}" as a sequence of characters: the decimal nearest to a with two
\* fraction digits, ties to even on the exact binary value
DigitChar == <<"0", "1", "2", "3", "4", "5", "6", "7", "8", "9">>

RECURSIVE IntChars(_)
IntChars(n) ==
  IF n < 10 THEN <<DigitChar[n + 1]>>
  ELSE IntChars(n \div 10) \o <<DigitChar[(n % 10) + 1]>>

Fmt2fCents(neg, cents) ==
  (IF neg THEN <<"-">> ELSE <<>>)
    \o IntChars(cents \div 100)
    \o <<".", DigitChar[((cents \div 10) % 10) + 1],
         DigitChar[(cents % 10) + 1]>>

\* n * 2^e is 100 * |a|, fl its integer part, c compares its fraction with 1/2
Fmt2fRound(neg, fl, c) ==
  Fmt2fCents(neg,
             BToInt(fl) + (IF c > 0 \/ (c = 0 /\ BOdd(fl)) THEN 1 ELSE 0))

Fmt2fFl(neg, n, e, fl) ==
  Fmt2fRound(neg, fl, BCmp(BSub(n, BShl(fl, -e)), BShl(<<1>>, -e - 1)))

Fmt2fScaled(neg, n, e) ==
  IF e >= 0 THEN Fmt2fCents(neg, BToInt(BShl(n, e)))
  ELSE Fmt2fFl(neg, n, e, BShr(n, -e))

Fmt2f(a) == Fmt2fScaled(a.neg, BMulSmall(a.m, 100), a.e)

\* str.rstrip(chars) on a sequence of characters
RECURSIVE rstrip(_, _)
rstrip(s, chars) ==
  IF s # <<>> /\ s[Len(s)] \in chars
  THEN rstrip(SubSeq(s, 1, Len(s) - 1), chars) ELSE s

\* the string a sequence of characters spells
RECURSIVE Join(_)
Join(s) == IF s = <<>> THEN "" ELSE Head(s) \o Join(Tail(s))

(***************************************************************************)
(* Utility functions of src/app.py                                         *)
(***************************************************************************)
None == [none |-> TRUE]

factor == 10000

\* rounding up to three decimals, not four
round_up_to_3_dec(x) ==
  IF x = None THEN None
  ELSE FDiv(FromInt(FCeil(FMul(x, FromInt(1000)))), FromInt(1000))

round_up_to_4_dec(x) ==
  IF x = None THEN None
  ELSE FDiv(FromInt(FCeil(FMul(x, FromInt(factor)))), FromInt(factor))

pcs_sizes ==
  <<FromDec(125, 2), FromDec(150, 2), FromDec(175, 2),
    FromDec(20, 1), FromDec(25, 1), FromDec(50, 1)>>

\* the loop over pcs_sizes from its i-th element
RECURSIVE PcsFrom(_, _, _)
PcsFrom(sizes, container_power, i) ==
  IF i > Len(sizes) THEN sizes[Len(sizes)]
  ELSE IF FLe(container_power, sizes[i]) THEN sizes[i]
  ELSE PcsFrom(sizes, container_power, i + 1)

\* the loop with "container_power_mw < s" for its test
RECURSIVE PcsBelowFrom(_, _, _)
PcsBelowFrom(sizes, container_power, i) ==
  IF i > Len(sizes) THEN sizes[Len(sizes)]
  ELSE IF FLt(container_power, sizes[i]) THEN sizes[i]
  ELSE PcsBelowFrom(sizes, container_power, i + 1)

select_pcs_rating_below(container_power) ==
  PcsBelowFrom(pcs_sizes, container_power, 1)

select_pcs_rating(container_power) == PcsFrom(pcs_sizes, container_power, 1)

candidates ==
  <<FromDec(125, 2), FromDec(15, 1), FromDec(175, 2), FromDec(20, 1),
    FromDec(25, 1), FromDec(35, 1), FromDec(50, 1)>>

\* f"{c:.2f}MVA".rstrip("0").rstrip(".") + "MVA"
TransformerLabel(c) ==
  Join(rstrip(rstrip(Fmt2f(c) \o <<"M", "V", "A">>, {"0"}), {"."})) \o "MVA"

\* the loop over candidates from its i-th element: the candidate selected
RECURSIVE CandidateFrom(_, _, _)
CandidateFrom(cs, container_power, i) ==
  IF i > Len(cs) THEN cs[Len(cs)]
  ELSE IF FLe(container_power, cs[i]) THEN cs[i]
  ELSE CandidateFrom(cs, container_power, i + 1)

select_transformer_mva(container_power) ==
  TransformerLabel(CandidateFrom(candidates, container_power, 1))

limit_per_run == FromInt(446)

CableRemark(runs) ==
  IF runs = 1 THEN "Use 300mm² cable, 1 run per phase"
  ELSE "Use 300mm² cable, " \o ToString(runs) \o " runs per phase"

\* "current_amps < 0" for the first test
cable_runs_300mm_negative(amps) ==
  IF FLt(amps, FZero) THEN "No current"
  ELSE CableRemark(FCeil(FDiv(amps, limit_per_run)))

cable_runs_300mm(amps) ==
  IF FLe(amps, FZero) THEN "No current"
  ELSE CableRemark(FCeil(FDiv(amps, limit_per_run)))

(***************************************************************************)
(* The script.  Streamlit runs it top to bottom on the current widget      *)
(* values and again whenever a widget changes.  The script's variables are *)
(* the model's, under their names, and every assignment statement is one   *)
(* step; pc names the statement to run next.  fn, arg, ret are a call of   *)
(* one utility function on its own.                                        *)
(* The line current of the electrical summary is outside the model: the    *)
(* cable remark is modelled as the function of the current that it is.     *)
(***************************************************************************)
VARIABLES pc, load_mw, discharge_h, dod_percent, rte_percent,
          other_eff_percent, c_rate,
          initial_mwh, after_dod_mwh, after_rte_mwh, after_other_eff_mwh,
          required_bess_mwh, required_discharge_power_mw, customer_c_rate,
          model, cap_kwh, units, total_mwh, oversize_mwh, oversize_pct,
          container_power_mw, pcs_rating_mw, pcs_quantity, transformer_mva,
          rows, best_idx,
          fn, arg, ret

widgets == <<load_mw, discharge_h, dod_percent, rte_percent,
             other_eff_percent, c_rate>>

chain == <<initial_mwh, after_dod_mwh, after_rte_mwh, after_other_eff_mwh>>

required == <<required_bess_mwh, required_discharge_power_mw, customer_c_rate>>

sizing == <<model, cap_kwh, units, total_mwh, oversize_mwh, oversize_pct>>

conversion == <<container_power_mw, pcs_rating_mw, pcs_quantity,
                transformer_mva>>

table == <<rows, best_idx>>

call == <<fn, arg, ret>>

vars == <<pc, widgets, chain, required, sizing, conversion, table, call>>

\* ---- values a user can give the widgets (each within the widget's range)
MaxLoadCenti == 0

MaxHours == 1

LoadValues ==
  {FromDec(n, 2) : n \in 0..MaxLoadCenti}
    \cup {FromDec(5, 2), FromDec(99, 2), FromDec(125, 2),
          FromDec(45711, 2), FromDec(3040128, 3)}

DischargeValues ==
  {FromInt(n) : n \in 0..MaxHours} \cup {FromDec(25, 1), FromInt(8), FromDec(85, 1)}

DodValues == {FromInt(90), FromInt(100)}

RteValues == {FromDec(8865, 2), FromInt(100)}

OtherEffValues == {FromDec(999, 1), FromInt(100)}

CRateValues == {FromDec(25, 2), FromInt(1)}

battery_models ==
  <<[name |-> "261 kWh battery", capacity_kwh |-> FromInt(261)],
    [name |-> "3727.36 kWh battery", capacity_kwh |-> FromDec(372736, 2)],
    [name |-> "5015.9 kWh battery", capacity_kwh |-> FromDec(50159, 1)]>>

\* ---- one run of the script
NotRun ==
  /\ initial_mwh = None /\ after_dod_mwh = None /\ after_rte_mwh = None
  /\ after_other_eff_mwh = None /\ required_bess_mwh = None
  /\ required_discharge_power_mw = None /\ customer_c_rate = None
  /\ model = None /\ cap_kwh = None /\ units = None /\ total_mwh = None
  /\ oversize_mwh = None /\ oversize_pct = None
  /\ container_power_mw = None /\ pcs_rating_mw = None
  /\ pcs_quantity = None /\ transformer_mva = None
  /\ rows = <<>> /\ best_idx = None

NoCall == fn = "" /\ arg = None /\ ret = None

Init ==
  /\ pc = "initial_mwh"
  /\ load_mw = FromDec(99, 2)
  /\ discharge_h = FromInt(8)
  /\ dod_percent = FromInt(90)
  /\ rte_percent = FromDec(8865, 2)
  /\ other_eff_percent = FromInt(100)
  /\ c_rate = FromDec(25, 2)
  /\ NotRun
  /\ NoCall

\* Step 1 - required capacity
InitialMwh ==
  /\ pc = "initial_mwh"
  /\ initial_mwh' = FMul(load_mw, discharge_h)
  /\ pc' = "after_dod_mwh"
  /\ UNCHANGED <<widgets, after_dod_mwh, after_rte_mwh, after_other_eff_mwh,
                 required, sizing, conversion, table, call>>

AfterDod ==
  /\ pc = "after_dod_mwh"
  /\ after_dod_mwh' =
       round_up_to_4_dec(FDiv(initial_mwh, FDiv(dod_percent, FromInt(100))))
  /\ pc' = "after_rte_mwh"
  /\ UNCHANGED <<widgets, initial_mwh, after_rte_mwh, after_other_eff_mwh,
                 required, sizing, conversion, table, call>>

AfterRte ==
  /\ pc = "after_rte_mwh"
  /\ after_rte_mwh' =
       round_up_to_4_dec(FDiv(after_dod_mwh, FDiv(rte_percent, FromInt(100))))
  /\ pc' = "after_other_eff_mwh"
  /\ UNCHANGED <<widgets, initial_mwh, after_dod_mwh, after_other_eff_mwh,
                 required, sizing, conversion, table, call>>

AfterOtherEff ==
  /\ pc = "after_other_eff_mwh"
  /\ after_other_eff_mwh' =
       round_up_to_4_dec(
         FDiv(after_rte_mwh, FDiv(other_eff_percent, FromInt(100))))
  /\ pc' = "required_bess_mwh"
  /\ UNCHANGED <<widgets, initial_mwh, after_dod_mwh, after_rte_mwh,
                 required, sizing, conversion, table, call>>

Required ==
  /\ pc = "required_bess_mwh"
  /\ required_bess_mwh' = after_other_eff_mwh
  /\ required_discharge_power_mw' = load_mw
  /\ customer_c_rate' = c_rate
  /\ pc' = "for"
  /\ UNCHANGED <<widgets, chain, sizing, conversion, table, call>>

\* for model in battery_models: the next model, or the end of the loop
ForModel ==
  /\ pc = "for"
  /\ Len(rows) < Len(battery_models)
  /\ model' = battery_models[Len(rows) + 1]
  /\ cap_kwh' = battery_models[Len(rows) + 1].capacity_kwh
  /\ pc' = "units"
  /\ UNCHANGED <<widgets, chain, required, units, total_mwh, oversize_mwh,
                 oversize_pct, conversion, table, call>>

ForEnd ==
  /\ pc = "for"
  /\ Len(rows) = Len(battery_models)
  /\ pc' = "best_idx"
  /\ UNCHANGED <<widgets, chain, required, sizing, conversion, table, call>>

Units ==
  /\ pc = "units"
  /\ units' =
       IF FLt(FZero, required_bess_mwh)
       THEN FCeil(FDiv(FMul(required_bess_mwh, FromInt(1000)), cap_kwh))
       ELSE 0
  /\ pc' = "total_mwh"
  /\ UNCHANGED <<widgets, chain, required, model, cap_kwh, total_mwh,
                 oversize_mwh, oversize_pct, conversion, table, call>>

TotalMwh ==
  /\ pc = "total_mwh"
  /\ total_mwh' = FDiv(FMul(FromInt(units), cap_kwh), FromInt(1000))
  /\ pc' = "oversize_mwh"
  /\ UNCHANGED <<widgets, chain, required, model, cap_kwh, units,
                 oversize_mwh, oversize_pct, conversion, table, call>>

OversizeMwh ==
  /\ pc = "oversize_mwh"
  /\ oversize_mwh' =
       IF required_bess_mwh # None THEN FSub(total_mwh, required_bess_mwh)
       ELSE None
  /\ pc' = "oversize_pct"
  /\ UNCHANGED <<widgets, chain, required, model, cap_kwh, units, total_mwh,
                 oversize_pct, conversion, table, call>>

OversizePct ==
  /\ pc = "oversize_pct"
  /\ oversize_pct' =
       IF required_bess_mwh # FZero /\ FLt(FZero, required_bess_mwh)
       THEN FMul(FDiv(oversize_mwh, required_bess_mwh), FromInt(100))
       ELSE FZero
  /\ pc' = "container_power_mw"
  /\ UNCHANGED <<widgets, chain, required, model, cap_kwh, units, total_mwh,
                 oversize_mwh, conversion, table, call>>

\* PCS sizing per unit
ContainerPower ==
  /\ pc = "container_power_mw"
  /\ container_power_mw' = FDiv(FMul(customer_c_rate, cap_kwh), FromInt(1000))
  /\ pc' = "pcs_rating_mw"
  /\ UNCHANGED <<widgets, chain, required, sizing, pcs_rating_mw,
                 pcs_quantity, transformer_mva, table, call>>

PcsRating ==
  /\ pc = "pcs_rating_mw"
  /\ pcs_rating_mw' = select_pcs_rating(container_power_mw)
  /\ pc' = "pcs_quantity"
  /\ UNCHANGED <<widgets, chain, required, sizing, container_power_mw,
                 pcs_quantity, transformer_mva, table, call>>

PcsQuantity ==
  /\ pc = "pcs_quantity"
  /\ pcs_quantity' =
       IF FLt(FZero, pcs_rating_mw)
       THEN FCeil(FDiv(required_discharge_power_mw, pcs_rating_mw))
       ELSE 0
  /\ pc' = "transformer_mva"
  /\ UNCHANGED <<widgets, chain, required, sizing, container_power_mw,
                 pcs_rating_mw, transformer_mva, table, call>>

\* Transformer sizing
TransformerMva ==
  /\ pc = "transformer_mva"
  /\ transformer_mva' = select_transformer_mva(container_power_mw)
  /\ pc' = "append"
  /\ UNCHANGED <<widgets, chain, required, sizing, container_power_mw,
                 pcs_rating_mw, pcs_quantity, table, call>>

\* rows.append({...}); container_power_mw is kept beside the row's columns
AppendRow ==
  /\ pc = "append"
  /\ rows' = Append(rows,
       [name |-> model.name,
        capacity_kwh |-> cap_kwh,
        units |-> units,
        total_mwh |-> total_mwh,
        oversize_mwh |-> oversize_mwh,
        oversize_pct |-> oversize_pct,
        c_rate |-> customer_c_rate,
        container_power_mw |-> container_power_mw,
        pcs_rating_mw |-> pcs_rating_mw,
        pcs_quantity |-> pcs_quantity,
        transformer_mva |-> transformer_mva])
  /\ pc' = "for"
  /\ UNCHANGED <<widgets, chain, required, sizing, conversion, best_idx, call>>

\* Series.clip(lower=0) on one value
clip(v) == IF FLt(v, FZero) THEN FZero ELSE v

\* Series.idxmin(): the label (from 0) of the first occurrence of the minimum
RECURSIVE IdxMinFrom(_, _, _)
IdxMinFrom(s, i, best) ==
  IF i > Len(s) THEN best - 1
  ELSE IF FLt(s[i], s[best]) THEN IdxMinFrom(s, i + 1, i)
  ELSE IdxMinFrom(s, i + 1, best)

\* the label of the last occurrence of the minimum
RECURSIVE IdxMinLastFrom(_, _, _)
IdxMinLastFrom(s, i, best) ==
  IF i > Len(s) THEN best - 1
  ELSE IF FLe(s[i], s[best]) THEN IdxMinLastFrom(s, i + 1, i)
  ELSE IdxMinLastFrom(s, i + 1, best)

idxmin_last(s) == IdxMinLastFrom(s, 2, 1)

idxmin(s) == IdxMinFrom(s, 2, 1)

\* Identify "best" model by smallest oversizing
BestIdx ==
  /\ pc = "best_idx"
  /\ best_idx' =
       IF required_bess_mwh # FZero /\ FLt(FZero, required_bess_mwh)
       THEN idxmin([i \in 1..Len(rows) |-> clip(rows[i].oversize_mwh)])
       ELSE None
  /\ pc' = "done"
  /\ UNCHANGED <<widgets, chain, required, sizing, conversion, rows, call>>

\* ---- a widget changes and the script runs again
Rerun ==
  /\ pc = "done"
  /\ pc' = "initial_mwh"
  /\ initial_mwh' = None /\ after_dod_mwh' = None /\ after_rte_mwh' = None
  /\ after_other_eff_mwh' = None /\ required_bess_mwh' = None
  /\ required_discharge_power_mw' = None /\ customer_c_rate' = None
  /\ model' = None /\ cap_kwh' = None /\ units' = None /\ total_mwh' = None
  /\ oversize_mwh' = None /\ oversize_pct' = None
  /\ container_power_mw' = None /\ pcs_rating_mw' = None
  /\ pcs_quantity' = None /\ transformer_mva' = None
  /\ rows' = <<>> /\ best_idx' = None
  /\ UNCHANGED call

SetLoad ==
  /\ Rerun
  /\ load_mw' \in LoadValues \ {load_mw}
  /\ UNCHANGED <<discharge_h, dod_percent, rte_percent, other_eff_percent,
                 c_rate>>

SetDischarge ==
  /\ Rerun
  /\ discharge_h' \in DischargeValues \ {discharge_h}
  /\ UNCHANGED <<load_mw, dod_percent, rte_percent, other_eff_percent, c_rate>>

SetDod ==
  /\ Rerun
  /\ dod_percent' \in DodValues \ {dod_percent}
  /\ UNCHANGED <<load_mw, discharge_h, rte_percent, other_eff_percent, c_rate>>

SetRte ==
  /\ Rerun
  /\ rte_percent' \in RteValues \ {rte_percent}
  /\ UNCHANGED <<load_mw, discharge_h, dod_percent, other_eff_percent, c_rate>>

SetOtherEff ==
  /\ Rerun
  /\ other_eff_percent' \in OtherEffValues \ {other_eff_percent}
  /\ UNCHANGED <<load_mw, discharge_h, dod_percent, rte_percent, c_rate>>

SetCRate ==
  /\ Rerun
  /\ c_rate' \in CRateValues \ {c_rate}
  /\ UNCHANGED <<load_mw, discharge_h, dod_percent, rte_percent,
                 other_eff_percent>>

Next ==
  \/ InitialMwh
  \/ AfterDod
  \/ AfterRte
  \/ AfterOtherEff
  \/ Required
  \/ ForModel
  \/ ForEnd
  \/ Units
  \/ TotalMwh
  \/ OversizeMwh
  \/ OversizePct
  \/ ContainerPower
  \/ PcsRating
  \/ PcsQuantity
  \/ TransformerMva
  \/ AppendRow
  \/ BestIdx
  \/ SetLoad
  \/ SetDischarge
  \/ SetDod
  \/ SetRte
  \/ SetOtherEff
  \/ SetCRate

Spec == Init /\ [][Next]_vars

(***************************************************************************)
(* A utility function called on its own: fn is the function, arg its       *)
(* argument, ret what it returned.                                         *)
(***************************************************************************)
MaxX4 == 60

MaxX5 == 60

MaxPowerCenti == 600

MaxAmps == 900

\* the next float above a, and the negative of a
NextUp(a) == FCarry(a.neg, BAdd(a.m, <<1>>), a.e)

FNeg(a) == [a EXCEPT !.neg = TRUE]

\* the floats that four-decimal literals denote
FourDecimals == {FromDec(n, 4) : n \in 0..MaxX4}

RoundArgs ==
  {None} \cup FourDecimals \cup {FromDec(n, 5) : n \in 0..MaxX5}
    \cup {FMul(FromDec(5, 2), FromDec(85, 1))}

PowerArgs == {FromDec(n, 2) : n \in 0..MaxPowerCenti}

CableArgs ==
  {FromInt(n) : n \in 0..MaxAmps}
    \cup {NextUp(FromInt(n)) : n \in 1..MaxAmps}
    \cup {FNeg(FromInt(1))}

InitCalls ==
  /\ pc = "call"
  /\ load_mw = None /\ discharge_h = None /\ dod_percent = None
  /\ rte_percent = None /\ other_eff_percent = None /\ c_rate = None
  /\ NotRun
  /\ ret = None
  /\ \/ fn = "round_up_to_4_dec" /\ arg \in RoundArgs
     \/ fn = "select_pcs_rating" /\ arg \in PowerArgs
     \/ fn = "select_transformer_mva" /\ arg \in PowerArgs
     \/ fn = "cable_runs_300mm" /\ arg \in CableArgs

Return(value) ==
  /\ pc = "call"
  /\ ret' = value
  /\ pc' = "return"
  /\ UNCHANGED <<widgets, chain, required, sizing, conversion, table, fn, arg>>

CallRoundUp == fn = "round_up_to_4_dec" /\ Return(round_up_to_4_dec(arg))

CallSelectPcs == fn = "select_pcs_rating" /\ Return(select_pcs_rating(arg))

CallSelectTransformer ==
  fn = "select_transformer_mva" /\ Return(select_transformer_mva(arg))

CallCableRuns == fn = "cable_runs_300mm" /\ Return(cable_runs_300mm(arg))

NextCalls ==
  \/ CallRoundUp
  \/ CallSelectPcs
  \/ CallSelectTransformer
  \/ CallCableRuns

SpecCalls == InitCalls /\ [][NextCalls]_vars

Returned(f) == pc = "return" /\ fn = f

(***************************************************************************)
(* The claims                                                              *)
(***************************************************************************)
Positive(a) == a # None /\ FLt(FZero, a)

Range(q) == {q[i] : i \in 1..Len(q)}

\* C1: in every row of a finished table, when required_bess_mwh > 0 the
\* installed capacity units * capacity_kwh / 1000 is at least
\* required_bess_mwh and one unit fewer is not; when required_bess_mwh <= 0
\* the row has no units.
C1_NeverUndersized ==
  pc = "done" =>
    \A i \in 1..Len(rows) :
      IF Positive(required_bess_mwh)
      THEN /\ rows[i].units >= 1
           /\ rows[i].total_mwh =
                FDiv(FMul(FromInt(rows[i].units), rows[i].capacity_kwh),
                     FromInt(1000))
           /\ FLe(required_bess_mwh, rows[i].total_mwh)
           /\ FLt(FDiv(FMul(FromInt(rows[i].units - 1), rows[i].capacity_kwh),
                       FromInt(1000)),
                  required_bess_mwh)
      ELSE rows[i].units = 0

\* the label the trimming is meant to give: the decimal without its trailing
\* zeros and decimal point, then "MVA" once
TrimmedLabel(c) == Join(rstrip(rstrip(Fmt2f(c), {"0"}), {"."})) \o "MVA"

\* C2: the transformer label is the selected candidate as a trimmed decimal
\* (2.0 gives "2", 1.75 stays "1.75") followed by "MVA" exactly once.
C2_TrimmedLabel ==
  Returned("select_transformer_mva") =>
    ret = TrimmedLabel(CandidateFrom(candidates, arg, 1))

\* the end-to-end scenario: the default widget values
Scenario ==
  /\ pc = "done"
  /\ load_mw = FromDec(99, 2)
  /\ discharge_h = FromInt(8)
  /\ dod_percent = FromInt(90)
  /\ rte_percent = FromDec(8865, 2)
  /\ other_eff_percent = FromInt(100)

\* C3 as claimed: in the scenario initial_mwh = 7.92, after_dod_mwh = 8.8,
\* after_rte_mwh = 9.9324 and required_bess_mwh = 9.9324.
C3_Scenario9_9324 ==
  Scenario =>
    /\ initial_mwh = FromDec(792, 2)
    /\ after_dod_mwh = FromDec(88, 1)
    /\ after_rte_mwh = FromDec(99324, 4)
    /\ required_bess_mwh = FromDec(99324, 4)

\* C3 as amended: in the scenario initial_mwh = 7.92, after_dod_mwh = 8.8,
\* after_rte_mwh = 9.9267 and required_bess_mwh = 9.9267.
C3_Scenario9_9267 ==
  Scenario =>
    /\ initial_mwh = FromDec(792, 2)
    /\ after_dod_mwh = FromDec(88, 1)
    /\ after_rte_mwh = FromDec(99267, 4)
    /\ required_bess_mwh = FromDec(99267, 4)

C3_ScenarioRun == Scenario /\ Positive(required_bess_mwh)

\* max(oversizing_mwh, 0) of the i-th row
Clipped(i) ==
  IF FLt(rows[i].oversize_mwh, FZero) THEN FZero ELSE rows[i].oversize_mwh

\* C4: when required_bess_mwh > 0 the selected row is the first row in catalog
\* order whose max(oversizing_mwh, 0) is minimal over the rows; when
\* required_bess_mwh <= 0 no row is selected.
C4_FirstMinimalRow ==
  pc = "done" =>
    IF Positive(required_bess_mwh)
    THEN /\ best_idx \in 0..(Len(rows) - 1)
         /\ \A j \in 1..Len(rows) : FLe(Clipped(best_idx + 1), Clipped(j))
         /\ \A j \in 1..best_idx : FLt(Clipped(best_idx + 1), Clipped(j))
    ELSE best_idx = None

\* a selection among rows that tie for the minimum
C4_TieBroken ==
  /\ pc = "done"
  /\ Positive(required_bess_mwh)
  /\ best_idx = 0
  /\ \E j \in 2..Len(rows) : FEq(Clipped(j), Clipped(1))

\* C5: after_dod_mwh >= initial_mwh, after_rte_mwh >= after_dod_mwh,
\* after_other_eff_mwh >= after_rte_mwh, and required_bess_mwh is
\* after_other_eff_mwh.
C5_ChainMonotone ==
  pc = "done" =>
    /\ FLe(initial_mwh, after_dod_mwh)
    /\ FLe(after_dod_mwh, after_rte_mwh)
    /\ FLe(after_rte_mwh, after_other_eff_mwh)
    /\ required_bess_mwh = after_other_eff_mwh

\* C6: round_up_to_4_dec(x) for x >= 0 has result >= x and
\* result - x < 0.0001, an x that is an exact multiple of 0.0001 already is
\* returned unchanged, and None returns None.
C6_RoundUp ==
  Returned("round_up_to_4_dec") =>
    IF arg = None THEN ret = None
    ELSE /\ FLe(arg, ret)
         /\ FLt(FSub(ret, arg), FromDec(1, 4))
         /\ arg \in FourDecimals => ret = arg

\* C7: select_pcs_rating(p) is the smallest value of pcs_sizes that is >= p,
\* and 5.00 when p exceeds every value (1.25 -> 1.25, 1.26 -> 1.5, 6.0 -> 5.0).
C7_ClampedCeiling ==
  Returned("select_pcs_rating") =>
    /\ ret \in Range(pcs_sizes)
    /\ IF \E s \in Range(pcs_sizes) : FLe(arg, s)
       THEN /\ FLe(arg, ret)
            /\ \A s \in Range(pcs_sizes) : FLe(arg, s) => FLe(ret, s)
       ELSE ret = FromInt(5)
    /\ arg = FromDec(125, 2) => ret = FromDec(125, 2)
    /\ arg = FromDec(126, 2) => ret = FromDec(15, 1)
    /\ arg = FromInt(6) => ret = FromInt(5)

\* a power above every list value has returned the last one
C7_Clamped ==
  /\ Returned("select_pcs_rating")
  /\ arg = FromInt(6)
  /\ ret = FromInt(5)

\* runs * 446 >= amps, and (runs - 1) * 446 < amps
MinimalRuns(amps, runs) ==
  /\ FLe(amps, FromInt(446 * runs))
  /\ FLt(FromInt(446 * (runs - 1)), amps)

\* C8: cable_runs_300mm is "No current" for current_amps <= 0; otherwise, for
\* the smallest integer runs with runs * 446 >= current_amps, it is the 1 run
\* remark exactly when 0 < current_amps <= 446 and the "{runs} runs" remark,
\* runs >= 2, above 446.
C8_CableRuns ==
  Returned("cable_runs_300mm") =>
    IF FLe(arg, FZero) THEN ret = "No current"
    ELSE /\ \E runs \in 1..(MaxAmps \div 446 + 2) :
              /\ MinimalRuns(arg, runs)
              /\ ret = IF runs = 1 THEN "Use 300mm² cable, 1 run per phase"
                       ELSE "Use 300mm² cable, " \o ToString(runs)
                              \o " runs per phase"
         /\ ret = "Use 300mm² cable, 1 run per phase"
              <=> FLe(arg, FromInt(446))
         /\ arg = FromInt(447) => ret = "Use 300mm² cable, 2 runs per phase"

\* the boundary: the next float above 446 A has returned two runs
C8_Boundary ==
  /\ Returned("cable_runs_300mm")
  /\ arg = NextUp(FromInt(446))
  /\ ret = "Use 300mm² cable, 2 runs per phase"

\* C9: in every row the PCS rating is at least the row's container power
\* customer_c_rate * capacity_kwh / 1000.
C9_PcsCoversContainer ==
  pc = "done" =>
    \A i \in 1..Len(rows) :
      /\ rows[i].container_power_mw =
           FDiv(FMul(c_rate, rows[i].capacity_kwh), FromInt(1000))
      /\ FLe(rows[i].container_power_mw, rows[i].pcs_rating_mw)

\* C10: in every row pcs_quantity is the smallest n >= 0 with
\* n * pcs_rating_mw >= load_mw, and it is 0 exactly when load_mw = 0.
C10_PcsQuantityMinimal ==
  pc = "done" =>
    /\ required_discharge_power_mw = load_mw
    /\ \A i \in 1..Len(rows) :
         /\ rows[i].pcs_quantity >= 0
         /\ FLe(required_discharge_power_mw,
                FMul(FromInt(rows[i].pcs_quantity), rows[i].pcs_rating_mw))
         /\ rows[i].pcs_quantity >= 1 =>
              FLt(FMul(FromInt(rows[i].pcs_quantity - 1), rows[i].pcs_rating_mw),
                  required_discharge_power_mw)
         /\ rows[i].pcs_quantity = 0 <=> load_mw = FZero

\* a finished table with a row whose last PCS unit is partly used
C10_PartialUnit ==
  /\ pc = "done"
  /\ \E i \in 1..Len(rows) :
       /\ rows[i].pcs_quantity >= 2
       /\ FLt(load_mw, FMul(FromInt(rows[i].pcs_quantity), rows[i].pcs_rating_mw))

====
